---- MODULE Spec2Model ----
(***************************************************************************)
(* URL shortener (src/app.py, src/database.py, src/utils.py).              *)
(*                                                                         *)
(* The Flask application serves three endpoints over an SQLite database    *)
(* with two tables, urls and clicks.  The development server handles each  *)
(* request on its own thread with its own connection, so handlers          *)
(* interleave at their storage statements and at their clock readings.     *)
(* Each handler is modelled as the sequence of its statements that touch   *)
(* the database or the clock; one process of Procs is one worker thread.   *)
(*                                                                         *)
(* Time is counted in minutes: datetime.utcnow() is the variable clock,    *)
(* timedelta(minutes=m) is m, and isoformat()/fromisoformat() are exact    *)
(* inverses on datetimes, so a stored timestamp is the number itself.      *)
(* A short code is a sequence of one-character strings; a URL is the       *)
(* record of the parts that the expression of is_valid_url tells apart.    *)
(* An INSERT with its commit is one atomic step that either adds the row   *)
(* or raises a sqlite3 exception (a storage fault, or the violated UNIQUE  *)
(* constraint); the SELECTs are taken not to fail.                         *)
(***************************************************************************)
EXTENDS Integers, Sequences, FiniteSets, TLC

\* ------------------------------------------------------------ bounds
NumProcs  == 2      \* worker threads
MaxUrls   == 2      \* rows of urls the model lets requests insert
MaxClicks == 2      \* rows of clicks the model lets requests insert
MaxClock  == 2      \* the clock stops advancing here

Procs == 1..NumProcs

\* ------------------------------------------------------------ inputs
None == <<>>        \* JSON null, an absent key or the empty string (all falsy)

\* JSON values of the "validity" key: t is the JSON type, v the number
\* Python computes with (bool is a subclass of int: True == 1).
JsonNull   == [t |-> "null", v |-> 0]
JsonInt(n) == [t |-> "int",  v |-> n]
JsonTrue   == [t |-> "bool", v |-> 1]
JsonStr    == [t |-> "str",  v |-> 0]

\* URLs, as the parts the regular expression of is_valid_url tells apart:
\* the scheme, the kind of host, and what follows the host and port.
Url(scheme, host, rest) == [scheme |-> scheme, host |-> host, rest |-> rest]
UrlNone == Url("", "", "")                      \* absent or empty
UrlA    == Url("https", "domain", "/path")
UrlB    == Url("HTTP", "localhost", "")
UrlBad  == Url("mailto", "domain", "/path")
UrlSp   == Url("http", "ipv4", "/a b")

\* Short codes, as sequences of characters.
CodeG1   == <<"a", "b", "c", "d", "e", "f", "g">>
CodeG2   == <<"h", "2", "k", "m", "n", "p", "q">>
CodeC1   == <<"a", "B", "_", "-">>
CodeShrt == <<"a", "b", "c">>
CodeBang == <<"a", "b", "c", "!">>
CodeNl   == <<"a", "b", "c", "d", "\n">>
GenCodes == {CodeG1, CodeG2}             \* values shortuuid.uuid()[:7] may take

\* What concurrent requests carry (Spec) ...
Urls        == {UrlA, UrlBad}
Validities  == {JsonNull, JsonInt(1)}
CustomCodes == {None, CodeG1}
PathCodes   == {CodeG1, CodeG2}          \* <shortcode> of the two GET routes
Referrers   == {""}                      \* request.referrer ("" when absent)
\* ... and what the requests of a single worker carry (SpecSeq).
SeqUrls        == {UrlNone, UrlA, UrlB, UrlBad, UrlSp}
SeqValidities  == {JsonNull, JsonInt(-1), JsonInt(0), JsonInt(1), JsonInt(2),
                   JsonTrue, JsonStr}
SeqCustomCodes == {None, CodeG1, CodeC1, CodeShrt, CodeBang, CodeNl}
SeqPathCodes   == {CodeG1, CodeG2, CodeC1}
SeqReferrers   == {"", "ref"}
\* the bodies of its POST requests: (url, validity, shortcode)
SeqBodies ==
    {<<u, JsonNull, None>> : u \in SeqUrls}
    \cup {<<UrlA, v, None>> : v \in SeqValidities}
    \cup {<<UrlA, JsonInt(1), c>> : c \in SeqCustomCodes}
    \cup {<<UrlB, JsonInt(2), CodeC1>>, <<UrlB, JsonTrue, CodeG1>>,
          <<UrlBad, JsonInt(1), CodeBang>>, <<UrlNone, JsonNull, CodeShrt>>}

\* ------------------------------------------------------------ state
VARIABLES
    urls,       \* table urls, in rowid order
    clicks,     \* table clicks, in rowid order
    clock,      \* datetime.utcnow()
    pc,         \* per worker: the statement it is at
    req,        \* per worker: the locals of the request it is handling
    resp,       \* the response sent by the last step, if it sent one, with
                \* the locals of the handler that returned it
    gone,       \* history: the codes for which a redirect has answered 410
    served      \* history: the codes of the redirects answered 302, in order

vars == <<urls, clicks, clock, pc, req, resp, gone, served>>

NoReq  == [kind |-> "none"]
NoResp == [p |-> 0, status |-> 0, body |-> <<>>, req |-> NoReq]

Init ==
    /\ urls = <<>>
    /\ clicks = <<>>
    /\ clock = 0
    /\ pc = [p \in Procs |-> "idle"]
    /\ req = [p \in Procs |-> NoReq]
    /\ resp = NoResp
    /\ gone = {}
    /\ served = <<>>

\* ------------------------------------------------------------ utils.py
\* re.IGNORECASE on the scheme alternative (?:http|ftp)s?
FoldCase(s) ==
    CASE s = "HTTP" -> "http"
      [] s = "HTTPS" -> "https"
      [] s = "FTP" -> "ftp"
      [] OTHER -> s

\* (?:/?|[/?]\S+)$ : nothing, a slash, or [/?] and then no white space
RestMatches(rest) == rest \in {"", "/", "/path", "?q=1"}

is_valid_url(url) ==
    /\ FoldCase(url.scheme) \in {"http", "https", "ftp", "ftps"}
    /\ url.host \in {"domain", "localhost", "ipv4"}
    /\ RestMatches(url.rest)

\* datetime.utcnow() + timedelta(minutes=minutes), read at time now
calculate_expiry(now, minutes) == now + minutes

\* ------------------------------------------------------------ app.py helpers
\* truthiness of the values of "url" and "shortcode"
UrlGiven(url) == url # UrlNone
CodeGiven(code) == code # None

CodeChars ==
    {"a", "b", "c", "d", "e", "f", "g", "h", "k", "m", "n", "p", "q",
     "B", "2", "_", "-"}

\* re.match(r'^[a-zA-Z0-9_-]{4,20}$', code); $ also matches before a final "\n"
CodeFormatOk(code) ==
    LET core == IF Len(code) > 0 /\ code[Len(code)] = "\n"
                THEN SubSeq(code, 1, Len(code) - 1) ELSE code
    IN  /\ Len(core) >= 4
        /\ Len(core) <= 20
        /\ \A i \in 1..Len(core) : core[i] \in CodeChars

\* (mutant) validity_minutes >= 0 instead of > 0
ExpiryMinutes_NonNegative(validity) ==
    IF validity.t \in {"int", "bool"} /\ validity.v >= 0 THEN validity.v ELSE 30

\* validity_minutes if isinstance(validity_minutes, int) and validity_minutes > 0 else 30
ExpiryMinutes(validity) ==
    IF validity.t \in {"int", "bool"} /\ validity.v > 0 THEN validity.v ELSE 30

\* SELECT ... FROM urls WHERE short_code = ? ; fetchone(): the first row or none
RowsWithCode(code) == SelectSeq(urls, LAMBDA r : r.short_code = code)

\* (mutant) the existence check queries a column no code is stored in, and
\* finds nothing
CodeExists_Never(code) == FALSE

CodeExists(code) == RowsWithCode(code) # <<>>

\* (mutant) the row fetched without the WHERE clause: the newest row
FetchUrl_NoFilter(code) == urls[Len(urls)]

FetchUrl(code) == Head(RowsWithCode(code))

\* (mutant) the column short_code declared without UNIQUE
UniqueViolated_NoConstraint(code) == FALSE

\* short_code TEXT NOT NULL UNIQUE: the insert is rejected when the code is stored
UniqueViolated(code) == CodeExists(code)

\* app.py does not import sqlite3: evaluating "except sqlite3.Error" while an
\* exception propagates raises NameError, which no handler catches; Flask
\* answers it through the errorhandler(500).
Sqlite3Imported == FALSE

ErrorBody(message) == [error |-> message]
\* isoformat() + "Z"
IsoZ(t) == <<t, "Z">>

\* (mutant) sqlite3 imported: the except clause is reached and answers
ExceptSqlite3Error_Handled(status, body) == <<status, body>>

\* the response when a statement inside try raises a sqlite3 exception and the
\* except clause, were it reached, would answer (status, body)
ExceptSqlite3Error(status, body) ==
    IF Sqlite3Imported THEN <<status, body>>
    ELSE <<500, ErrorBody("Internal Server Error")>>      \* internal_error

\* The model starts a request only while the table it may insert into has room
\* for the rows of all the requests under way.
InFlight(kinds) == Cardinality({q \in Procs : pc[q] \in kinds})
CreatePcs   == {"c_custom", "c_generate", "c_insert"}
RedirectPcs == {"r_expiry", "r_stamp", "r_insert"}

\* the handler of worker p returns: (status, body) is sent, the connection is
\* closed and the locals are gone
Return(p, locals, status, body) ==
    /\ pc' = [pc EXCEPT ![p] = "idle"]
    /\ req' = [req EXCEPT ![p] = NoReq]
    /\ resp' = [p |-> p, status |-> status, body |-> body, req |-> locals]

\* the handler of worker p goes on to the statement at `to`
Goto(p, locals, to) ==
    /\ pc' = [pc EXCEPT ![p] = to]
    /\ req' = [req EXCEPT ![p] = locals]
    /\ resp' = NoResp

\* ------------------------------------------------------------ POST /shorturls
\* lines 59-81: read the body, validate the URL, compute the expiry, check the
\* format of a custom code
CreateBegin(p, url, validity, shortcode) ==
    /\ pc[p] = "idle"
    /\ Len(urls) + InFlight(CreatePcs) < MaxUrls
    /\ LET locals == [kind |-> "create", original_url |-> url,
                      validity_minutes |-> validity,
                      custom_shortcode |-> shortcode]
           timed == [kind |-> "create", original_url |-> url,
                     validity_minutes |-> validity,
                     custom_shortcode |-> shortcode,
                     expiry_minutes |-> ExpiryMinutes(validity),
                     expires_at |-> calculate_expiry(clock, ExpiryMinutes(validity)),
                     final_shortcode |-> None,
                     iterations |-> 0]
       IN  IF ~UrlGiven(url) \/ ~is_valid_url(url)
           THEN Return(p, locals, 400, ErrorBody("Invalid or missing URL"))
           ELSE IF CodeGiven(shortcode) /\ ~CodeFormatOk(shortcode)
           THEN Return(p, locals, 400, ErrorBody("Invalid custom shortcode format"))
           ELSE Goto(p, timed, IF CodeGiven(shortcode) THEN "c_custom" ELSE "c_generate")
    /\ UNCHANGED <<urls, clicks, clock, gone, served>>

\* lines 84-88: the uniqueness check of a custom code
CreateCheckCustom(p) ==
    /\ pc[p] = "c_custom"
    /\ IF CodeExists(req[p].custom_shortcode)
       THEN Return(p, req[p], 409, ErrorBody("Custom shortcode already in use"))
       ELSE Goto(p, [req[p] EXCEPT !.final_shortcode = req[p].custom_shortcode],
                 "c_insert")
    /\ UNCHANGED <<urls, clicks, clock, gone, served>>

\* lines 91-96: one iteration of the generate-and-check loop; the iterations
\* made are counted modulo 2 (the loop has no counter and no limit)
CreateGenerate(p, generated_code) ==
    /\ pc[p] = "c_generate"
    /\ IF ~CodeExists(generated_code)
       THEN Goto(p, [req[p] EXCEPT !.final_shortcode = generated_code,
                                   !.iterations = (@ + 1) % 2], "c_insert")
       ELSE Goto(p, [req[p] EXCEPT !.iterations = (@ + 1) % 2], "c_generate")
    /\ UNCHANGED <<urls, clicks, clock, gone, served>>

\* the row INSERT INTO urls adds (id INTEGER PRIMARY KEY AUTOINCREMENT)
NewUrlRow(locals, created_at) ==
    [id |-> Len(urls) + 1,
     original_url |-> locals.original_url,
     short_code |-> locals.final_shortcode,
     created_at |-> created_at,
     expires_at |-> locals.expires_at]

\* the exception INSERT INTO urls ... commit() raises, if any
UrlInsertError(code, fault) ==
    IF fault THEN "OperationalError"
    ELSE IF UniqueViolated(code) THEN "IntegrityError"
    ELSE "none"

\* (mutant) the failure of the insert swallowed: 201 all the same
CreateInsert_Swallowed(p, fault) ==
    /\ pc[p] = "c_insert"
    /\ LET err == UrlInsertError(req[p].final_shortcode, fault)
           locals == [kind |-> "create", original_url |-> req[p].original_url,
                      validity_minutes |-> req[p].validity_minutes,
                      custom_shortcode |-> req[p].custom_shortcode,
                      expiry_minutes |-> req[p].expiry_minutes,
                      expires_at |-> req[p].expires_at,
                      final_shortcode |-> req[p].final_shortcode,
                      iterations |-> req[p].iterations,
                      created_at |-> clock, error |-> err]
       IN  /\ urls' = IF err = "none" THEN Append(urls, NewUrlRow(req[p], clock))
                      ELSE urls
           /\ Return(p, locals, 201, [shortLink |-> req[p].final_shortcode,
                                      expiry |-> IsoZ(req[p].expires_at)])
    /\ UNCHANGED <<clicks, clock, gone, served>>

\* lines 99-115: read the clock, insert and commit, answer
CreateInsert(p, fault) ==
    /\ pc[p] = "c_insert"
    /\ LET created_at == clock
           err == UrlInsertError(req[p].final_shortcode, fault)
           locals == [kind |-> "create", original_url |-> req[p].original_url,
                      validity_minutes |-> req[p].validity_minutes,
                      custom_shortcode |-> req[p].custom_shortcode,
                      expiry_minutes |-> req[p].expiry_minutes,
                      expires_at |-> req[p].expires_at,
                      final_shortcode |-> req[p].final_shortcode,
                      iterations |-> req[p].iterations,
                      created_at |-> created_at, error |-> err]
           failed == ExceptSqlite3Error(500,
                        ErrorBody("Internal server error occurred while creating short URL"))
       IN  IF err = "none"
           THEN /\ urls' = Append(urls, NewUrlRow(req[p], created_at))
                /\ Return(p, locals, 201,
                          [shortLink |-> req[p].final_shortcode,
                           expiry |-> IsoZ(req[p].expires_at)])
           ELSE /\ urls' = urls
                /\ Return(p, locals, failed[1], failed[2])
    /\ UNCHANGED <<clicks, clock, gone, served>>

\* ------------------------------------------------------------ GET /shorturls/<shortcode>
\* (mutant) getStats refusing an expired entry as the redirect does
StatsLookup_ChecksExpiry(p, shortcode) ==
    /\ pc[p] = "idle"
    /\ IF ~CodeExists(shortcode)
       THEN Return(p, [kind |-> "stats", shortcode |-> shortcode], 404,
                   ErrorBody("Short URL not found."))
       ELSE IF FetchUrl(shortcode).expires_at < clock
       THEN Return(p, [kind |-> "stats", shortcode |-> shortcode], 410,
                   ErrorBody("Short URL has expired."))
       ELSE Goto(p, [kind |-> "stats", shortcode |-> shortcode,
                     url_entry |-> FetchUrl(shortcode)], "s_clicks")
    /\ UNCHANGED <<urls, clicks, clock, gone, served>>

\* lines 122-128: look the code up
StatsLookup(p, shortcode) ==
    /\ pc[p] = "idle"
    /\ IF ~CodeExists(shortcode)
       THEN Return(p, [kind |-> "stats", shortcode |-> shortcode], 404,
                   ErrorBody("Short URL not found."))
       ELSE Goto(p, [kind |-> "stats", shortcode |-> shortcode,
                     url_entry |-> FetchUrl(shortcode)], "s_clicks")
    /\ UNCHANGED <<urls, clicks, clock, gone, served>>

\* (mutant) the clicks selected without the WHERE clause
ClicksOf_NoFilter(url_id) == clicks

\* SELECT ... FROM clicks WHERE url_id = ? ; fetchall(): a scan in rowid order
ClicksOf(url_id) == SelectSeq(clicks, LAMBDA c : c.url_id = url_id)

\* lines 136-145: one element of clickDetails
ClickDetail(click) ==
    [timestamp |-> IsoZ(click.timestamp), referrer |-> click.referrer]

\* lines 134-145: the loop over the fetched rows
ClickDetails(rows) == [i \in 1..Len(rows) |-> ClickDetail(rows[i])]

\* lines 130-154: fetch the clicks of the entry and answer
StatsClicks(p) ==
    /\ pc[p] = "s_clicks"
    /\ LET url_entry == req[p].url_entry
           rows == ClicksOf(url_entry.id)
       IN  Return(p, req[p], 200,
                  [originalUrl |-> url_entry.original_url,
                   creationDate |-> IsoZ(url_entry.created_at),
                   expiryDate |-> IsoZ(url_entry.expires_at),
                   totalClicks |-> Len(rows),
                   clickDetails |-> ClickDetails(rows)])
    /\ UNCHANGED <<urls, clicks, clock, gone, served>>

\* ------------------------------------------------------------ GET /<shortcode>
\* lines 161-167: look the code up
RedirectLookup(p, shortcode, referrer) ==
    /\ pc[p] = "idle"
    /\ Len(clicks) + InFlight(RedirectPcs) < MaxClicks
    /\ IF ~CodeExists(shortcode)
       THEN Return(p, [kind |-> "redirect", shortcode |-> shortcode], 404,
                   ErrorBody("Short URL not found."))
       ELSE Goto(p, [kind |-> "redirect", shortcode |-> shortcode,
                     url_entry |-> FetchUrl(shortcode),
                     referrer |-> referrer,
                     after_gone |-> shortcode \in gone], "r_expiry")
    /\ UNCHANGED <<urls, clicks, clock, gone, served>>

\* (mutant) expired only at the very instant of expiry
IsExpired_Exact(expires_at, now) == expires_at = now

\* (mutant) the comparison of the expiry check turned round
IsExpired_Reversed(expires_at, now) == now < expires_at

\* expires_at_dt < datetime.utcnow()
IsExpired(expires_at, now) == expires_at < now

\* (mutant) the expired entry deleted when its redirect is refused
RedirectExpiry_Purges(p) ==
    /\ pc[p] = "r_expiry"
    /\ LET locals == [kind |-> "redirect", shortcode |-> req[p].shortcode,
                      url_entry |-> req[p].url_entry,
                      referrer |-> req[p].referrer,
                      after_gone |-> req[p].after_gone,
                      now |-> clock]
       IN  IF IsExpired(req[p].url_entry.expires_at, clock)
           THEN /\ Return(p, locals, 410, ErrorBody("Short URL has expired."))
                /\ gone' = gone \cup {req[p].shortcode}
                /\ urls' = SelectSeq(urls, LAMBDA r : r.id # req[p].url_entry.id)
           ELSE /\ Goto(p, locals, "r_stamp")
                /\ gone' = gone
                /\ urls' = urls
    /\ UNCHANGED <<clicks, clock, served>>

\* lines 169-172: the expiry check, against the clock as read now
RedirectExpiry(p) ==
    /\ pc[p] = "r_expiry"
    /\ LET locals == [kind |-> "redirect", shortcode |-> req[p].shortcode,
                      url_entry |-> req[p].url_entry,
                      referrer |-> req[p].referrer,
                      after_gone |-> req[p].after_gone,
                      now |-> clock]
       IN  IF IsExpired(req[p].url_entry.expires_at, clock)
           THEN /\ Return(p, locals, 410, ErrorBody("Short URL has expired."))
                /\ gone' = gone \cup {req[p].shortcode}
           ELSE /\ Goto(p, locals, "r_stamp")
                /\ gone' = gone
    /\ UNCHANGED <<urls, clicks, clock, served>>

\* request.referrer if request.referrer else 'Direct'
ReferrerOrDirect(referrer) == IF referrer # "" THEN referrer ELSE "Direct"

\* (mutant) the time read for the expiry check reused as the timestamp
RedirectStamp_ReusesCheckTime(p) ==
    /\ pc[p] = "r_stamp"
    /\ Goto(p, [kind |-> "redirect", shortcode |-> req[p].shortcode,
                url_entry |-> req[p].url_entry,
                after_gone |-> req[p].after_gone,
                now |-> req[p].now,
                referrer |-> ReferrerOrDirect(req[p].referrer),
                timestamp |-> req[p].now,
                clicks_seen |-> Len(clicks)], "r_insert")
    /\ UNCHANGED <<urls, clicks, clock, gone, served>>

\* lines 175-179: the click's fields; the clock is read again (clicks_seen is
\* history: how many clicks were stored when the timestamp was taken)
RedirectStamp(p) ==
    /\ pc[p] = "r_stamp"
    /\ Goto(p, [kind |-> "redirect", shortcode |-> req[p].shortcode,
                url_entry |-> req[p].url_entry,
                after_gone |-> req[p].after_gone,
                now |-> req[p].now,
                referrer |-> ReferrerOrDirect(req[p].referrer),
                timestamp |-> clock,
                clicks_seen |-> Len(clicks)], "r_insert")
    /\ UNCHANGED <<urls, clicks, clock, gone, served>>

\* (mutant) the click stored under the id of the click, not of the entry
NewClickRow_WrongOwner(locals) ==
    [id |-> Len(clicks) + 1,
     url_id |-> Len(clicks) + 1,
     timestamp |-> locals.timestamp,
     referrer |-> locals.referrer]

\* the row INSERT INTO clicks adds
NewClickRow(locals) ==
    [id |-> Len(clicks) + 1,
     url_id |-> locals.url_entry.id,
     timestamp |-> locals.timestamp,
     referrer |-> locals.referrer]

\* the exception INSERT INTO clicks ... commit() raises, if any
ClickInsertError(fault) == IF fault THEN "OperationalError" ELSE "none"

\* lines 181-192: insert the click and commit, then redirect
RedirectInsert(p, fault) ==
    /\ pc[p] = "r_insert"
    /\ LET location == [location |-> req[p].url_entry.original_url]
           err == ClickInsertError(fault)
           locals == [kind |-> "redirect", shortcode |-> req[p].shortcode,
                      url_entry |-> req[p].url_entry,
                      after_gone |-> req[p].after_gone,
                      now |-> req[p].now,
                      referrer |-> req[p].referrer,
                      timestamp |-> req[p].timestamp,
                      clicks_seen |-> req[p].clicks_seen,
                      error |-> err]
           failed == ExceptSqlite3Error(302, location)
       IN  /\ IF err = "none"
              THEN /\ clicks' = Append(clicks, NewClickRow(req[p]))
                   /\ Return(p, locals, 302, location)
              ELSE /\ clicks' = clicks
                   /\ Return(p, locals, failed[1], failed[2])
           /\ served' = IF resp'.status = 302
                         THEN Append(served, req[p].shortcode) ELSE served
    /\ UNCHANGED <<urls, clock, gone>>

\* ------------------------------------------------------------ the clock
Tick ==
    /\ clock < MaxClock
    /\ clock' = clock + 1
    /\ resp' = NoResp
    /\ UNCHANGED <<urls, clicks, pc, req, gone, served>>

\* ------------------------------------------------------------ specifications
\* Requests handled concurrently by the workers.
Next ==
    \/ Tick
    \/ \E p \in Procs :
        \/ \E url \in Urls, validity \in Validities, shortcode \in CustomCodes :
              CreateBegin(p, url, validity, shortcode)
        \/ CreateCheckCustom(p)
        \/ \E generated_code \in GenCodes : CreateGenerate(p, generated_code)
        \/ \E fault \in BOOLEAN : CreateInsert(p, fault)
        \/ \E shortcode \in PathCodes : StatsLookup(p, shortcode)
        \/ StatsClicks(p)
        \/ \E shortcode \in PathCodes, referrer \in Referrers :
              RedirectLookup(p, shortcode, referrer)
        \/ RedirectExpiry(p)
        \/ RedirectStamp(p)
        \/ \E fault \in BOOLEAN : RedirectInsert(p, fault)

Spec == Init /\ [][Next]_vars

\* Requests handled one after the other by a single worker, while time passes.
SeqProc == CHOOSE p \in Procs : \A q \in Procs : p <= q

NextSeq ==
    \/ Tick
    \/ \E body \in SeqBodies : CreateBegin(SeqProc, body[1], body[2], body[3])
    \/ CreateCheckCustom(SeqProc)
    \/ \E generated_code \in GenCodes : CreateGenerate(SeqProc, generated_code)
    \/ \E fault \in BOOLEAN : CreateInsert(SeqProc, fault)
    \/ \E shortcode \in SeqPathCodes : StatsLookup(SeqProc, shortcode)
    \/ StatsClicks(SeqProc)
    \/ \E shortcode \in SeqPathCodes, referrer \in SeqReferrers :
          RedirectLookup(SeqProc, shortcode, referrer)
    \/ RedirectExpiry(SeqProc)
    \/ RedirectStamp(SeqProc)
    \/ \E fault \in BOOLEAN : RedirectInsert(SeqProc, fault)

SpecSeq == Init /\ [][NextSeq]_vars

\* Create requests without a requested code, by workers that keep running: a
\* worker inside the handler goes on to its next statement sooner or later
\* (threads are scheduled; nothing in the handler waits for another request).
\* Nothing is assumed about the codes shortuuid returns.
NextRetry ==
    \/ Tick
    \/ \E p \in Procs :
        \/ \E url \in Urls, validity \in Validities :
              CreateBegin(p, url, validity, None)
        \/ \E generated_code \in GenCodes : CreateGenerate(p, generated_code)
        \/ \E fault \in BOOLEAN : CreateInsert(p, fault)

SpecRetry ==
    /\ Init
    /\ [][NextRetry]_vars
    /\ \A p \in Procs :
          /\ WF_vars(\E generated_code \in GenCodes : CreateGenerate(p, generated_code))
          /\ WF_vars(\E fault \in BOOLEAN : CreateInsert(p, fault))

\* ------------------------------------------------------------ properties
\* In a state reached by a step that sent a response, resp holds that response
\* and urls, clicks and clock are the store and the time at which it was sent.
Sent(kind, status) == resp.req.kind = kind /\ resp.status = status
StoredCodes == {urls[i].short_code : i \in 1..Len(urls)}
LastUrl == urls[Len(urls)]
\* the handler that answered had reached its insert statement
InsertTried(kind) == resp.req.kind = kind /\ "error" \in DOMAIN resp.req

\* C1: the store never holds two entries with the same shortCode, and every
\* create request answered 201 has just added the one entry that carries the
\* code it returns, so no two requests are answered 201 with the same code.
C1_OneEntryPerShortCode ==
    /\ \A i, j \in 1..Len(urls) : urls[i].short_code = urls[j].short_code => i = j
    /\ Sent("create", 201) =>
          /\ Len(urls) > 0
          /\ LastUrl.short_code = resp.body.shortLink
          /\ resp.body.shortLink = resp.req.final_shortcode

\* C1 witness: a create request lost the race for its code: it passed the
\* existence check, and its insert was rejected by the uniqueness constraint.
C1_Witness ==
    /\ InsertTried("create")
    /\ resp.req.error = "IntegrityError"
    /\ resp.req.final_shortcode \in StoredCodes

\* C2: a create request whose insert is rejected by the uniqueness constraint
\* ends in 409 when its code was a custom code, and in 201 (after a retry with
\* a new code) when its code was generated; it ends in no other way.
C2_ConflictIsRetriedOrSurfaced ==
    (InsertTried("create") /\ resp.req.error = "IntegrityError")
    => IF CodeGiven(resp.req.custom_shortcode) THEN resp.status = 409
       ELSE resp.status = 201

\* C3: a redirect of an existing, non-expired code whose click could not be
\* recorded is still answered with the 302 redirect to originalUrl.
C3_RedirectSurvivesClickFailure ==
    (InsertTried("redirect") /\ resp.req.error # "none")
    => /\ resp.status = 302
       /\ resp.body = [location |-> resp.req.url_entry.original_url]

\* the requests C4 is about: a valid URL and a well-formed custom code
C4_WellFormed(locals) ==
    /\ locals.kind = "create"
    /\ locals.original_url \in {UrlA, UrlB}
    /\ locals.custom_shortcode \in {CodeG1, CodeC1}

\* C4: with one request handled at a time, a create request with a valid URL
\* and a well-formed custom code that is not in the store is answered 201 and
\* stores exactly one entry, with that code (its insert meeting no storage
\* fault); when the code is in the store it is answered 409 and the store is
\* left as it was.
C4_CustomCodeCreatedOnceThenConflict ==
    [][ (resp'.p # 0 /\ C4_WellFormed(resp'.req)) =>
          LET code == resp'.req.custom_shortcode
          IN  IF code \in StoredCodes
              THEN resp'.status = 409 /\ urls' = urls
              ELSE \/ /\ resp'.status = 201
                      /\ resp'.body.shortLink = code
                      /\ Len(urls') = Len(urls) + 1
                      /\ SubSeq(urls', 1, Len(urls)) = urls
                      /\ urls'[Len(urls')].short_code = code
                   \/ /\ resp'.status = 500
                      /\ resp'.req.error = "OperationalError"
                      /\ urls' = urls
      ]_vars

\* C4 witness: a second create request with a custom code that an earlier
\* request stored is answered 409.
C4_Witness ==
    /\ Sent("create", 409)
    /\ resp.req.custom_shortcode = CodeC1
    /\ CodeC1 \in StoredCodes

\* C5: the answer to a redirect request is decided by the store and by the
\* clock as the handler read it: 404 iff no entry has the code, 410 iff the
\* entry's expiresAt is earlier than that time, and the 302 redirect to the
\* entry's originalUrl in every other case.
C5_RedirectOutcomeDetermined ==
    resp.req.kind = "redirect" =>
        IF resp.req.shortcode \notin StoredCodes THEN resp.status = 404
        ELSE LET entry == CHOOSE e \in {urls[i] : i \in 1..Len(urls)} :
                              e.short_code = resp.req.shortcode
             IN  /\ resp.status # 404
                 /\ IF entry.expires_at < resp.req.now THEN resp.status = 410
                    ELSE /\ resp.status = 302
                         /\ resp.body = [location |-> entry.original_url]

C7_ExpiryIsTerminal ==
    resp.req.kind = "redirect" =>
        IF resp.status = 404 THEN resp.req.shortcode \notin gone
        ELSE resp.req.after_gone => resp.status = 410

\* C7 witness: a redirect that started after a 410 for its code was answered.
C7_Witness ==
    /\ Sent("redirect", 410)
    /\ resp.req.after_gone
    /\ Len(clicks) >= 1

\* C8: the entry a create request stores has expiresAt = createdAt + v, v the
\* effective validity of the request.
C8_ExpiryIsCreationPlusValidity ==
    Sent("create", 201) =>
        LastUrl.expires_at = LastUrl.created_at + resp.req.expiry_minutes

\* the effective validity the specification gives a requested validity; -1
\* where it gives none (a value that is neither missing nor an integer)
C9_Claimed(validity) ==
    IF validity.t = "int" /\ validity.v > 0 THEN validity.v
    ELSE IF validity.t = "null" \/ (validity.t = "int" /\ validity.v <= 0) THEN 30
    ELSE -1

\* C9: the effective validity of a create request is the requested validity
\* when that is an integer greater than 0, and 30 when it is missing, zero or
\* negative; the stored expiry is computed from it.
C9_EffectiveValidity ==
    \A p \in Procs :
        (req[p].kind = "create" /\ C9_Claimed(req[p].validity_minutes) # -1) =>
            /\ req[p].expiry_minutes = C9_Claimed(req[p].validity_minutes)
            /\ \E t \in 0..clock :
                  req[p].expires_at = t + C9_Claimed(req[p].validity_minutes)

\* C9 witness: a request with a negative validity is under way with the default.
C9_Witness ==
    \E p \in Procs :
        /\ req[p].kind = "create"
        /\ req[p].validity_minutes = JsonInt(-1)
        /\ req[p].expiry_minutes = 30

\* the positions in clicks of the clicks owned by entry url_id, and the k-th
RECURSIVE C10_Owned(_, _)
C10_Owned(url_id, n) ==
    IF n = 0 THEN <<>>
    ELSE IF clicks[n].url_id = url_id THEN Append(C10_Owned(url_id, n - 1), n)
    ELSE C10_Owned(url_id, n - 1)

\* C10: the statistics of a code whose entry owns N clicks have totalClicks = N
\* and N clickDetails, which are the entry's clicks and no others, in the order
\* in which they were recorded.
C10_StatsListOwnClicksInOrder ==
    Sent("stats", 200) =>
        \E i \in 1..Len(urls) :
            /\ urls[i].short_code = resp.req.shortcode
            /\ LET own == C10_Owned(urls[i].id, Len(clicks))
               IN  /\ resp.body.totalClicks = Len(own)
                   /\ Len(resp.body.clickDetails) = Len(own)
                   /\ \A k \in 1..Len(own) :
                         /\ resp.body.clickDetails[k].timestamp
                               = <<clicks[own[k]].timestamp, "Z">>
                         /\ resp.body.clickDetails[k].referrer
                               = clicks[own[k]].referrer

\* C10 witness: statistics listing two clicks recorded at different times.
C10_Witness ==
    /\ Sent("stats", 200)
    /\ resp.body.totalClicks = 2
    /\ resp.body.clickDetails[1].timestamp # resp.body.clickDetails[2].timestamp

\* the clicks stored for the entry of a code
ClicksOfCode(code) ==
    {k \in 1..Len(clicks) :
        \E i \in 1..Len(urls) :
            urls[i].short_code = code /\ clicks[k].url_id = urls[i].id}

\* C11: a create request answered 201 for URL u has stored u under the code it
\* returns, with no click; and statistics answered for a code give the
\* originalUrl stored under it and, while no click of the entry is stored,
\* totalClicks = 0 and no clickDetails.
C11_CreateThenStatsRoundTrip ==
    /\ Sent("create", 201) =>
          /\ LastUrl.short_code = resp.body.shortLink
          /\ LastUrl.original_url = resp.req.original_url
          /\ ClicksOfCode(resp.body.shortLink) = {}
    /\ Sent("stats", 200) =>
          \E i \in 1..Len(urls) :
              /\ urls[i].short_code = resp.req.shortcode
              /\ resp.body.originalUrl = urls[i].original_url
              /\ ClicksOfCode(resp.req.shortcode) = {} =>
                    /\ resp.body.totalClicks = 0
                    /\ resp.body.clickDetails = <<>>

\* C11 witness: statistics of the second of two entries, not yet redirected,
\* while the first entry has a click.
C11_Witness ==
    /\ Sent("stats", 200)
    /\ resp.body.totalClicks = 0
    /\ Len(urls) = 2
    /\ resp.req.shortcode = urls[2].short_code
    /\ urls[1].original_url # urls[2].original_url
    /\ Len(clicks) >= 1
    /\ served = <<>> \/ \A k \in 1..Len(served) : served[k] # resp.req.shortcode

\* how many redirects of a code were answered 302
TimesServed(code) == Cardinality({k \in 1..Len(served) : served[k] = code})

C13_CreateFaultIs500AndStoresNothing ==
    [][(/\ resp'.req.kind = "create"
        /\ "error" \in DOMAIN resp'.req
        /\ resp'.req.error # "none")
       => (resp'.status = 500 /\ urls' = urls)]_vars

\* C13 witness: the INSERT of a create request failed with an error of the
\* storage itself (not a conflict), 500 was answered and the code is not stored.
C13_Witness ==
    /\ InsertTried("create")
    /\ resp.req.error = "OperationalError"
    /\ resp.status = 500
    /\ resp.req.final_shortcode \notin StoredCodes
    /\ Len(urls) = 1

\* C14: a create request whose URL is missing or invalid is answered 400 with
\* the URL error, whatever its custom code; one with a valid URL and a custom
\* code that is not 4 to 20 characters of [A-Za-z0-9_-] is answered 400 and
\* no entry is stored under that code.
C14_ValidationGatesCreation ==
    resp.req.kind = "create" =>
        LET url == resp.req.original_url
            code == resp.req.custom_shortcode
            urlOk == UrlGiven(url) /\ is_valid_url(url)
            inFormat == /\ Len(code) >= 4
                        /\ Len(code) <= 20
                        /\ \A i \in 1..Len(code) : code[i] \in CodeChars
        IN  /\ ~urlOk =>
                  resp.status = 400 /\ resp.body = ErrorBody("Invalid or missing URL")
            /\ (urlOk /\ CodeGiven(code) /\ ~inFormat) =>
                  resp.status = 400 /\ code \notin StoredCodes

\* C15: getStats answers by the code alone, not by the time: 200 exactly for
\* a stored code, with the data of its entry also when expires_at is in the
\* past, and with totalClicks 0 when no redirect of the code was answered 302
\* (all of them ended 404 or 410).
C15_StatsIgnoreExpiry ==
    resp.req.kind = "stats" =>
        /\ resp.status = 200 <=> resp.req.shortcode \in StoredCodes
        /\ resp.status = 200 =>
              \E i \in 1..Len(urls) :
                  /\ urls[i].short_code = resp.req.shortcode
                  /\ resp.body.originalUrl = urls[i].original_url
                  /\ resp.body.creationDate = IsoZ(urls[i].created_at)
                  /\ resp.body.expiryDate = IsoZ(urls[i].expires_at)
                  /\ TimesServed(resp.req.shortcode) = 0 =>
                        /\ resp.body.totalClicks = 0
                        /\ resp.body.clickDetails = <<>>

\* C15 witness: getStats answers 200 with totalClicks 0 for an entry that has
\* expired and whose redirect was answered 410, while another entry has a click.
C15_Witness ==
    /\ Sent("stats", 200)
    /\ resp.req.url_entry.expires_at < clock
    /\ resp.req.shortcode \in gone
    /\ TimesServed(resp.req.shortcode) = 0
    /\ resp.body.totalClicks = 0
    /\ Len(clicks) >= 1

\* C16: a create request without a requested code that has entered the
\* generate-and-check loop leaves it, and is answered, whatever codes the
\* generator returns.
C16_GenerateLoopTerminates ==
    \A p \in Procs : (pc[p] = "c_generate") ~> (pc[p] = "idle")

\* C17: every stored entry expires after it was created, however much time
\* passed in the create request between computing expires_at and inserting.
C17_ExpiresAfterCreated ==
    \A i \in 1..Len(urls) : urls[i].expires_at > urls[i].created_at

\* C18: the tables only grow, by one row at their end and with the rows they
\* had unchanged: a step changes urls only when it answers a create request,
\* and then not clicks; it changes clicks only when it answers a redirect
\* request, and then not urls; no step of getStats changes either.
C18_StoreIsAppendOnly ==
    [][ /\ Len(urls) <= Len(urls') /\ Len(urls') <= Len(urls) + 1
        /\ SubSeq(urls', 1, Len(urls)) = urls
        /\ Len(clicks) <= Len(clicks') /\ Len(clicks') <= Len(clicks) + 1
        /\ SubSeq(clicks', 1, Len(clicks)) = clicks
        /\ urls' # urls => (clicks' = clicks /\ resp'.req.kind = "create")
        /\ clicks' # clicks => (urls' = urls /\ resp'.req.kind = "redirect")
      ]_vars

\* C18 witness: requests of the three kinds have been answered on a store that
\* held rows already: two entries, a click, a refused redirect, and statistics
\* answered last.
C18_Witness ==
    /\ Sent("stats", 200)
    /\ Len(urls) = 2
    /\ Len(clicks) >= 1
    /\ gone # {}

\* the entry that owns a click
OwnerOf(click) == CHOOSE r \in {urls[i] : i \in 1..Len(urls)} : r.id = click.url_id

\* C19 (as claimed): no click has a timestamp later than the expires_at of
\* the entry that owns it.
C19_ClickWithinValidityWindow ==
    \A k \in 1..Len(clicks) : clicks[k].timestamp <= OwnerOf(clicks[k]).expires_at

\* C19 (amended): a click is recorded by a redirect whose expiry check was made
\* at a time not later than the expires_at of the entry that owns the click;
\* its timestamp is a later reading of the clock, not earlier than that check.
C19_ClickCheckedWithinValidityWindow ==
    Sent("redirect", 302) =>
        LET click == clicks[Len(clicks)]
        IN  /\ click.timestamp = resp.req.timestamp
            /\ OwnerOf(click) = resp.req.url_entry
            /\ resp.req.now <= OwnerOf(click).expires_at
            /\ resp.req.now <= click.timestamp

\* C19 witness: a redirect has recorded a click whose timestamp is later than
\* the expires_at of its entry.
C19_Witness ==
    /\ Sent("redirect", 302)
    /\ clicks[Len(clicks)].timestamp > resp.req.url_entry.expires_at

\* C20 (as claimed): the clickDetails of a statistics response are in
\* non-decreasing order of timestamp.
C20_ClickDetailsInTimestampOrder ==
    Sent("stats", 200) =>
        \A j, k \in 1..Len(resp.body.clickDetails) :
            j < k => resp.body.clickDetails[j].timestamp[1]
                        <= resp.body.clickDetails[k].timestamp[1]

\* C20 (amended): a redirect that took its timestamp when all the clicks stored
\* before its own were stored already (no other redirect inserted between its
\* reading of the clock and its insert) appends a click whose timestamp is not
\* earlier than any of theirs; clicks are listed in the order of insertion.
C20_LaterClickHasLaterTimestamp ==
    [][(/\ resp'.req.kind = "redirect"
        /\ resp'.status = 302
        /\ resp'.req.clicks_seen = Len(clicks))
       => /\ clicks' = Append(clicks, clicks'[Len(clicks')])
          /\ \A k \in 1..Len(clicks) :
                clicks[k].timestamp <= clicks'[Len(clicks')].timestamp]_vars

\* C20 witness: a second click was recorded by a redirect that took its
\* timestamp after the first click was stored, at a later time.
C20_Witness ==
    /\ Sent("redirect", 302)
    /\ Len(clicks) = 2
    /\ resp.req.clicks_seen = 1
    /\ clicks[1].url_id = clicks[2].url_id
    /\ clicks[1].timestamp < clicks[2].timestamp
====
